---------------------------- MODULE Spec2Model ----------------------------
(***************************************************************************)
(* A model of the CSV ingestion service of app.py: the database catalog,   *)
(* the raw and bronze tables, the temporary upload directory, the four     *)
(* database helpers and the two HTTP handlers that sequence them.          *)
(*                                                                         *)
(* Text (file names, identifiers, CSV cells) is a sequence of one-         *)
(* character strings, so that the string functions of the SQL transform    *)
(* and of os.path are computed character by character.                     *)
(***************************************************************************)
EXTENDS Integers, Sequences, FiniteSets, TLC

(***************************************************************************)
(* Bounds of the model.                                                    *)
(***************************************************************************)
\* the most data rows an uploaded CSV file holds
MaxRows == 2
\* the most rows bronze_trips is let grow to
MaxBronze == 2
\* the most rows of one week drawn for the aggregation query
MaxPerWeek == 5
\* requests are taken while fewer connections than this are left open
MaxConns == 1

(***************************************************************************)
(* Text helpers.                                                           *)
(***************************************************************************)
NULL == <<"NULL">>

Digits == {"0", "1", "2", "3", "4", "5", "6", "7", "8", "9"}

DigitVal(c) ==
    CASE c = "0" -> 0 [] c = "1" -> 1 [] c = "2" -> 2 [] c = "3" -> 3
      [] c = "4" -> 4 [] c = "5" -> 5 [] c = "6" -> 6 [] c = "7" -> 7
      [] c = "8" -> 8 [] c = "9" -> 9

DigitChar(n) ==
    CASE n = 0 -> "0" [] n = 1 -> "1" [] n = 2 -> "2" [] n = 3 -> "3"
      [] n = 4 -> "4" [] n = 5 -> "5" [] n = 6 -> "6" [] n = 7 -> "7"
      [] n = 8 -> "8" [] n = 9 -> "9"

\* the position of the first c in s, 0 when there is none
IndexOf(s, c) ==
    IF \E i \in 1..Len(s) : s[i] = c
    THEN CHOOSE i \in 1..Len(s) : s[i] = c /\ \A j \in 1..(i - 1) : s[j] # c
    ELSE 0

\* the position of the last c in s, 0 when there is none
LastIndexOf(s, c) ==
    IF \E i \in 1..Len(s) : s[i] = c
    THEN CHOOSE i \in 1..Len(s) : s[i] = c /\ \A j \in (i + 1)..Len(s) : s[j] # c
    ELSE 0

\* str.endswith
EndsWith(s, suffix) ==
    /\ Len(s) >= Len(suffix)
    /\ SubSeq(s, Len(s) - Len(suffix) + 1, Len(s)) = suffix

\* os.path.splitext(p)[0]: the text before the last dot, when that dot
\* follows a character that is not itself a leading dot
SplitextRoot(p) ==
    LET dot == LastIndexOf(p, ".")
    IN  IF dot > 1 /\ \E j \in 1..(dot - 1) : p[j] # "."
        THEN SubSeq(p, 1, dot - 1)
        ELSE p

\* a number's decimal digits
RECURSIVE NatText(_)
NatText(n) == IF n < 10 THEN <<DigitChar(n)>>
              ELSE NatText(n \div 10) \o <<DigitChar(n % 10)>>

\* the value of a non-empty text of digits
RECURSIVE NatVal(_)
NatVal(s) == IF Len(s) = 0 THEN 0
             ELSE 10 * NatVal(SubSeq(s, 1, Len(s) - 1)) + DigitVal(s[Len(s)])

AllDigits(s) == Len(s) > 0 /\ \A i \in 1..Len(s) : s[i] \in Digits

(***************************************************************************)
(* The SQL string functions of the transform query.                        *)
(***************************************************************************)
\* SPLIT_PART(s, d, n) for a one-character delimiter d
RECURSIVE SplitPart(_, _, _)
SplitPart(s, d, n) ==
    IF s = NULL THEN NULL
    ELSE LET i == IndexOf(s, d)
         IN  IF n = 1 THEN (IF i = 0 THEN s ELSE SubSeq(s, 1, i - 1))
             ELSE IF i = 0 THEN <<>>
             ELSE SplitPart(SubSeq(s, i + 1, Len(s)), d, n - 1)

\* TRIM(s) and TRIM(s, chars): the characters of chars removed at both ends
RECURSIVE Trim(_, _)
Trim(s, chars) ==
    IF s = NULL THEN NULL
    ELSE IF Len(s) > 0 /\ s[1] \in chars THEN Trim(Tail(s), chars)
    ELSE IF Len(s) > 0 /\ s[Len(s)] \in chars THEN Trim(SubSeq(s, 1, Len(s) - 1), chars)
    ELSE s

UpperChar(c) ==
    CASE c = "a" -> "A" [] c = "b" -> "B" [] c = "c" -> "C" [] c = "d" -> "D"
      [] c = "e" -> "E" [] c = "f" -> "F" [] c = "g" -> "G" [] c = "h" -> "H"
      [] c = "i" -> "I" [] c = "j" -> "J" [] c = "k" -> "K" [] c = "l" -> "L"
      [] c = "m" -> "M" [] c = "n" -> "N" [] c = "o" -> "O" [] c = "p" -> "P"
      [] c = "q" -> "Q" [] c = "r" -> "R" [] c = "s" -> "S" [] c = "t" -> "T"
      [] c = "u" -> "U" [] c = "v" -> "V" [] c = "w" -> "W" [] c = "x" -> "X"
      [] c = "y" -> "Y" [] c = "z" -> "Z" [] OTHER -> c

\* UPPER(s)
Upper(s) == IF s = NULL THEN NULL ELSE [i \in 1..Len(s) |-> UpperChar(s[i])]

(***************************************************************************)
(* Calendar arithmetic: dates are triples <<y, m, d>>.                     *)
(***************************************************************************)
IsLeap(y) == (y % 4 = 0 /\ y % 100 # 0) \/ y % 400 = 0

DaysInMonth(y, m) ==
    IF m = 2 THEN (IF IsLeap(y) THEN 29 ELSE 28)
    ELSE IF m \in {4, 6, 9, 11} THEN 30 ELSE 31

\* days from 1970-01-01 to the date
DaysFromCivil(dt) ==
    LET y   == IF dt[2] <= 2 THEN dt[1] - 1 ELSE dt[1]
        era == y \div 400
        yoe == y - era * 400
        mp  == (dt[2] + 9) % 12
        doy == (153 * mp + 2) \div 5 + dt[3] - 1
        doe == yoe * 365 + yoe \div 4 - yoe \div 100 + doy
    IN  era * 146097 + doe - 719468

\* the date that many days after 1970-01-01
CivilFromDays(z0) ==
    LET z   == z0 + 719468
        era == z \div 146097
        doe == z - era * 146097
        yoe == (doe - doe \div 1460 + doe \div 36524 - doe \div 146096) \div 365
        doy == doe - (365 * yoe + yoe \div 4 - yoe \div 100)
        mp  == (5 * doy + 2) \div 153
        d   == doy - (153 * mp + 2) \div 5 + 1
        m   == IF mp < 10 THEN mp + 3 ELSE mp - 9
        y   == yoe + era * 400 + (IF m <= 2 THEN 1 ELSE 0)
    IN  <<y, m, d>>

\* DATE_TRUNC('week', date): the Monday on or before the date
\* (1970-01-01 was a Thursday)
DateTruncWeek(dt) ==
    IF dt = NULL THEN NULL
    ELSE LET n == DaysFromCivil(dt)
         IN  CivilFromDays(n - ((n + 3) % 7))

Pad(n, width) ==
    LET t == NatText(n)
    IN  [i \in 1..(width - Len(t)) |-> "0"] \o t

\* strftime("%Y-%m-%d") of a date
Strftime(dt) == Pad(dt[1], 4) \o <<"-">> \o Pad(dt[2], 2) \o <<"-">> \o Pad(dt[3], 2)

(***************************************************************************)
(* The SQL casts of the transform query.  Each gives [ok, v]; ok is FALSE  *)
(* where the database rejects the text.  NULL casts to NULL.               *)
(***************************************************************************)
CastOk(v) == [ok |-> TRUE, v |-> v]
CastFail == [ok |-> FALSE, v |-> NULL]

\* CAST(s AS DATE) of an ISO text YYYY-MM-DD
CastDate(s) ==
    IF s = NULL THEN CastOk(NULL)
    ELSE IF /\ Len(s) = 10
            /\ s[5] = "-" /\ s[8] = "-"
            /\ AllDigits(SubSeq(s, 1, 4))
            /\ AllDigits(SubSeq(s, 6, 7))
            /\ AllDigits(SubSeq(s, 9, 10))
         THEN LET y == NatVal(SubSeq(s, 1, 4))
                  m == NatVal(SubSeq(s, 6, 7))
                  d == NatVal(SubSeq(s, 9, 10))
              IN  IF y >= 1 /\ m \in 1..12 /\ d >= 1 /\ d <= DaysInMonth(y, m)
                  THEN CastOk(<<y, m, d>>)
                  ELSE CastFail
         ELSE CastFail

\* CAST(s AS TIME) of a text HH:MM:SS
CastTime(s) ==
    IF s = NULL THEN CastOk(NULL)
    ELSE IF /\ Len(s) = 8
            /\ s[3] = ":" /\ s[6] = ":"
            /\ AllDigits(SubSeq(s, 1, 2))
            /\ AllDigits(SubSeq(s, 4, 5))
            /\ AllDigits(SubSeq(s, 7, 8))
         THEN LET h  == NatVal(SubSeq(s, 1, 2))
                  mi == NatVal(SubSeq(s, 4, 5))
                  se == NatVal(SubSeq(s, 7, 8))
              IN  IF h <= 23 /\ mi <= 59 /\ se <= 59
                  THEN CastOk(<<h, mi, se>>)
                  ELSE CastFail
         ELSE CastFail

\* the decimal number mant / 10^scale as the pair <<mant, scale>> with no
\* trailing zero in its fraction
RECURSIVE Normalise(_, _)
Normalise(mant, scale) ==
    IF scale > 0 /\ mant % 10 = 0 THEN Normalise(mant \div 10, scale - 1)
    ELSE <<mant, scale>>

\* CAST(s AS FLOAT) of a decimal text: blanks around it are ignored, then
\* an optional sign, digits, and an optional point followed by digits
CastFloat(s) ==
    IF s = NULL THEN CastOk(NULL)
    ELSE LET t     == Trim(s, {" "})
             neg   == Len(t) > 0 /\ t[1] = "-"
             u     == IF Len(t) > 0 /\ t[1] \in {"-", "+"} THEN Tail(t) ELSE t
             p     == IndexOf(u, ".")
             whole == IF p = 0 THEN u ELSE SubSeq(u, 1, p - 1)
             frac  == IF p = 0 THEN <<>> ELSE SubSeq(u, p + 1, Len(u))
         IN  IF /\ Len(whole) + Len(frac) > 0
                /\ \A i \in 1..Len(whole) : whole[i] \in Digits
                /\ \A i \in 1..Len(frac) : frac[i] \in Digits
             THEN LET n == NatVal(whole \o frac)
                  IN  CastOk(Normalise(IF neg THEN 0 - n ELSE n, Len(frac)))
             ELSE CastFail

(***************************************************************************)
(* Names the code fixes.                                                   *)
(***************************************************************************)
DB_NAME == <<"r", "a", "w">>
BRONZE == <<"b", "r", "o", "n", "z", "e">>
SILVER == <<"s", "i", "l", "v", "e", "r">>
POSTGRES == <<"p", "o", "s", "t", "g", "r", "e", "s">>
BRONZE_TRIPS == BRONZE \o <<"_", "t", "r", "i", "p", "s">>
BRONZE_PREFIX == BRONZE \o <<"_">>
TEMP == <<"t", "e", "m", "p", "/">>
CSV_EXT == <<".", "c", "s", "v">>

\* the columns the transform query reads from the raw table
COL_datetime == "datetime"
COL_origin_coord == "origin_coord"
COL_destination_coord == "destination_coord"
COL_region == "region"
COL_datasource == "datasource"

\* the schema of bronze_trips
BronzeCols ==
    << [name |-> "date", type |-> "DATE"],
       [name |-> "time", type |-> "TIME"],
       [name |-> "origin_latitude", type |-> "FLOAT"],
       [name |-> "origin_longitude", type |-> "FLOAT"],
       [name |-> "destination_latitude", type |-> "FLOAT"],
       [name |-> "destination_longitude", type |-> "FLOAT"],
       [name |-> "region", type |-> "VARCHAR"],
       [name |-> "datasource", type |-> "VARCHAR"] >>

(***************************************************************************)
(* The state the helpers act on, as one record:                            *)
(*   pg_database  the names in the server's catalog                        *)
(*   tables       <<database, table>> -> [cols, rows]                      *)
(*   fs           path -> [header, rows], the CSV files on disk            *)
(*   open_conns   the connections opened and not closed                    *)
(*   create_log   the CREATE DATABASE statements issued, in order          *)
(*   calls        the helper calls the running handler has made            *)
(* A helper gives [w, exc, ret]: the state it leaves, the text of the      *)
(* exception it raised ("" when it returned) and what it returned.         *)
(***************************************************************************)
NoExc == ""
Ret(w, exc, ret) == [w |-> w, exc |-> exc, ret |-> ret]

E_NoDatabase == "database does not exist"
E_DuplicateDatabase == "database already exists"
E_NoFile == "No such file or directory"
E_NoTable == "relation does not exist"
E_NoColumn == "column does not exist"
E_DuplicateColumn == "column specified more than once"
E_Insert == "INSERT has more expressions than target columns"
E_Syntax == "syntax error at or near \")\""
E_Cast == "invalid input syntax"
E_NoFunction == "function date_trunc(unknown, character varying) does not exist"
E_DivZero == "division by zero"
E_NoStrftime == "'NoneType' object has no attribute 'strftime'"
E_ConnSilver == "name 'conn_silver' is not defined"
E_NoSilverFn == "name 'create_silver_database_for_regions' is not defined"

\* what the database or the file system rejected, as opposed to what the
\* interpreter raised on its own
Rejections ==
    {E_NoDatabase, E_DuplicateDatabase, E_NoFile, E_NoTable, E_NoColumn,
     E_DuplicateColumn, E_Insert, E_Syntax, E_Cast, E_NoFunction, E_DivZero}

\* psycopg2.connect(dbname = db)
Connect(w, db) ==
    IF db \in w.pg_database
    THEN Ret([w EXCEPT !.open_conns = @ + 1], NoExc, NULL)
    ELSE Ret(w, E_NoDatabase, NULL)

\* conn.close()
Close(w) == [w EXCEPT !.open_conns = @ - 1]

HasTable(w, db, t) == <<db, t>> \in DOMAIN w.tables

ColIndex(cols, name) ==
    IF \E i \in 1..Len(cols) : cols[i].name = name
    THEN CHOOSE i \in 1..Len(cols) : cols[i].name = name
    ELSE 0

\* a helper's statements in sequence: the rest runs on the state the first
\* part left, unless that part raised
Bind(r, Rest(_)) == IF r.exc # NoExc THEN r ELSE Rest(r.w)

(***************************************************************************)
(* create_database_if_not_exists                                           *)
(***************************************************************************)
\* variant: CREATE DATABASE issued without the lookup (C4 tells it apart)
MustCreate_always(w, db_name) == TRUE

\* the catalog lookup and the branch on it: whether CREATE DATABASE is issued
MustCreate(w, db_name) == db_name \notin w.pg_database

\* CREATE DATABASE db_name
ExecCreateDatabase(w, db_name) ==
    IF db_name \in w.pg_database
    THEN Ret([w EXCEPT !.create_log = Append(@, db_name)], E_DuplicateDatabase, NULL)
    ELSE Ret([w EXCEPT !.create_log = Append(@, db_name),
                       !.pg_database = @ \cup {db_name}], NoExc, NULL)

\* "if not exists: cursor.execute(CREATE DATABASE ...)"
CreateIfAbsent(w, db_name) ==
    IF MustCreate(w, db_name) THEN ExecCreateDatabase(w, db_name) ELSE Ret(w, NoExc, NULL)

create_database_if_not_exists(w, db_name) ==
    Bind(Connect(w, POSTGRES), LAMBDA w1 :
    Bind(CreateIfAbsent(w1, db_name), LAMBDA w2 :
    Ret(Close(w2), NoExc, NULL)))

(***************************************************************************)
(* create_table_and_insert_data                                            *)
(***************************************************************************)
\* DROP TABLE IF EXISTS t, then CREATE TABLE t (header VARCHAR, ...)
DropAndCreate(w, db, t, headers) ==
    IF \E i, j \in 1..Len(headers) : i # j /\ headers[i] = headers[j]
    THEN Ret([w EXCEPT !.tables = [k \in DOMAIN @ \ {<<db, t>>} |-> @[k]]],
             E_DuplicateColumn, NULL)
    ELSE Ret([w EXCEPT !.tables =
                 (<<db, t>> :> [cols |-> [i \in 1..Len(headers) |->
                                            [name |-> headers[i], type |-> "VARCHAR"]],
                                rows |-> <<>>])
                 @@ @],
             NoExc, NULL)

\* the row as the table stores it: the columns past its cells are NULL
Stored(row, n) == [i \in 1..n |-> IF i <= Len(row) THEN row[i] ELSE NULL]

\* INSERT INTO t VALUES (%s, ..., %s) with the row's cells: the database
\* takes a row no longer than the table's columns and fills the rest with
\* NULL; it rejects a longer one and an empty VALUES list
ExecInsert(w, db, t, row) ==
    IF Len(row) = 0 THEN Ret(w, E_Syntax, NULL)
    ELSE IF ~HasTable(w, db, t) THEN Ret(w, E_NoTable, NULL)
    ELSE IF Len(row) > Len(w.tables[<<db, t>>].cols) THEN Ret(w, E_Insert, NULL)
    ELSE Ret([w EXCEPT !.tables[<<db, t>>].rows =
                 Append(@, Stored(row, Len(w.tables[<<db, t>>].cols)))],
             NoExc, NULL)

\* variant: a loop that goes on after a rejected row (C10 tells it apart)
RECURSIVE InsertRows_skip(_, _, _, _)
InsertRows_skip(w, db, t, rows) ==
    IF rows = <<>> THEN Ret(w, NoExc, NULL)
    ELSE InsertRows_skip(ExecInsert(w, db, t, Head(rows)).w, db, t, Tail(rows))

\* for row in reader: ... cursor.execute(insert_query, row)
RECURSIVE InsertRows(_, _, _, _)
InsertRows(w, db, t, rows) ==
    IF rows = <<>> THEN Ret(w, NoExc, NULL)
    ELSE Bind(ExecInsert(w, db, t, Head(rows)), LAMBDA w1 :
              InsertRows(w1, db, t, Tail(rows)))

\* variant: the table kept when it exists (C3 tells it apart)
PrepareTable_keep(w, db, t, headers, overwrite) ==
    IF HasTable(w, db, t) THEN Ret(w, NoExc, NULL) ELSE DropAndCreate(w, db, t, headers)

\* the "if overwrite:" branch
PrepareTable(w, db, t, headers, overwrite) ==
    IF overwrite THEN DropAndCreate(w, db, t, headers) ELSE Ret(w, NoExc, NULL)

\* open(file_path, mode='r')
OpenFile(w, file_path) ==
    IF file_path \in DOMAIN w.fs THEN Ret(w, NoExc, NULL) ELSE Ret(w, E_NoFile, NULL)

\* the body of the with statement, on the file read
LoadFile(w, db_name, table_name, csv_file, overwrite) ==
    Bind(PrepareTable(w, db_name, table_name, csv_file.header, overwrite), LAMBDA w1 :
    InsertRows(w1, db_name, table_name, csv_file.rows))

create_table_and_insert_data(w, db_name, file_path, file_name, overwrite) ==
    Bind(Connect(w, db_name), LAMBDA w1 :
    Bind(OpenFile(w1, file_path), LAMBDA w2 :
    Bind(LoadFile(w2, db_name, SplitextRoot(file_name), w2.fs[file_path], overwrite), LAMBDA w3 :
    Ret(Close(w3), NoExc, NULL))))

(***************************************************************************)
(* transform_data_to_bronze                                                *)
(***************************************************************************)
Cell(cols, row, name) == row[ColIndex(cols, name)]

\* the latitude and the longitude of a coordinate text
Latitude(coord) == CastFloat(Trim(SplitPart(SplitPart(coord, "(", 2), " ", 1), {" "}))
\* variant: the closing parenthesis left on the longitude (C7 tells it apart)
Longitude_untrimmed(coord) == CastFloat(SplitPart(SplitPart(coord, "(", 2), " ", 2))

Longitude(coord) == CastFloat(Trim(SplitPart(SplitPart(coord, "(", 2), " ", 2), {")"}))

\* the row of the eight casts' results; ok is FALSE when a cast failed
BronzeRow(date, time, olat, olon, dlat, dlon, region, datasource) ==
    [ok |-> date.ok /\ time.ok /\ olat.ok /\ olon.ok /\ dlat.ok /\ dlon.ok,
     v  |-> <<date.v, time.v, olat.v, olon.v, dlat.v, dlon.v, region, datasource>>]

\* the SELECT list of the CTE on one raw row
TransformRow(cols, row) ==
    BronzeRow(CastDate(SplitPart(Cell(cols, row, COL_datetime), " ", 1)),
              CastTime(SplitPart(Cell(cols, row, COL_datetime), " ", 2)),
              Latitude(Cell(cols, row, COL_origin_coord)),
              Longitude(Cell(cols, row, COL_origin_coord)),
              Latitude(Cell(cols, row, COL_destination_coord)),
              Longitude(Cell(cols, row, COL_destination_coord)),
              Upper(Cell(cols, row, COL_region)),
              Upper(Cell(cols, row, COL_datasource)))

\* the query's outcome from its rows' outcomes: one failed cast fails it
Fetched(w, ts) ==
    IF \E i \in 1..Len(ts) : ~ts[i].ok THEN Ret(w, E_Cast, <<>>)
    ELSE Ret(w, NoExc, [i \in 1..Len(ts) |-> ts[i].v])

TransformTable(w, tbl) ==
    IF \E c \in {COL_datetime, COL_origin_coord, COL_destination_coord,
                 COL_region, COL_datasource} : ColIndex(tbl.cols, c) = 0
    THEN Ret(w, E_NoColumn, <<>>)
    ELSE Fetched(w, [i \in 1..Len(tbl.rows) |-> TransformRow(tbl.cols, tbl.rows[i])])

\* cursor_raw.execute(cte_query); cursor_raw.fetchall()
SelectTransformed(w, db, t) ==
    IF ~HasTable(w, db, t) THEN Ret(w, E_NoTable, <<>>)
    ELSE TransformTable(w, w.tables[<<db, t>>])

\* CREATE TABLE IF NOT EXISTS bronze_trips (...)
CreateBronzeIfNotExists(w, db) ==
    IF HasTable(w, db, BRONZE_TRIPS) THEN w
    ELSE [w EXCEPT !.tables = (<<db, BRONZE_TRIPS>> :> [cols |-> BronzeCols, rows |-> <<>>]) @@ @]

\* variant: the table's rows replaced by the call's (C6 tells it apart)
InsertBronze_replace(w, db, transformed_data) ==
    [w EXCEPT !.tables[<<db, BRONZE_TRIPS>>].rows = transformed_data]

\* cursor_bronze.executemany(insert_query, transformed_data)
InsertBronze(w, db, transformed_data) ==
    [w EXCEPT !.tables[<<db, BRONZE_TRIPS>>].rows = @ \o transformed_data]

\* the statement after the two connections are closed: conn_silver.close(),
\* a name the function never binds
CloseSilver(w) == Ret(w, E_ConnSilver, NULL)

\* from the fetched rows to the end of the function
StoreTransformed(q, bronze_db_name) ==
    IF q.exc # NoExc THEN q
    ELSE CloseSilver(Close(Close(
             InsertBronze(CreateBronzeIfNotExists(q.w, bronze_db_name),
                          bronze_db_name, q.ret))))

transform_data_to_bronze(w, raw_db_name, raw_table_name, bronze_db_name) ==
    Bind(Connect(w, raw_db_name), LAMBDA w1 :
    Bind(Connect(w1, bronze_db_name), LAMBDA w2 :
    StoreTransformed(SelectTransformed(w2, raw_db_name, raw_table_name), bronze_db_name)))

(***************************************************************************)
(* create_or_fetch_weekly_average_trips                                    *)
(***************************************************************************)
Orderings(S) ==
    {f \in [1..Cardinality(S) -> S] : \A i, j \in 1..Cardinality(S) : f[i] = f[j] => i = j}

\* DATE_TRUNC('week', date) of each row
RowWeeks(tbl) ==
    [i \in 1..Len(tbl.rows) |-> DateTruncWeek(tbl.rows[i][ColIndex(tbl.cols, "date")])]

Range(f) == {f[i] : i \in DOMAIN f}

\* the rows of one group
Group(weeks, week) == {i \in DOMAIN weeks : weeks[i] = week}

\* COUNT(*) / COUNT(DISTINCT DATE_TRUNC('week', date)) of a group: both
\* counts are taken inside the group, COUNT(DISTINCT ...) leaves NULL out,
\* and the division is the integers'
Average(count, distinct) ==
    IF distinct = 0 THEN [ok |-> FALSE, v |-> 0]
    ELSE [ok |-> TRUE, v |-> count \div distinct]

\* variant: the distinct weeks counted over the whole table (C8 tells it apart)
WeeklyAvg_global(weeks, week) ==
    Average(Cardinality(Group(weeks, week)), Cardinality(Range(weeks) \ {NULL}))

WeeklyAvg(weeks, week) ==
    Average(Cardinality(Group(weeks, week)),
            Cardinality({weeks[i] : i \in Group(weeks, week)} \ {NULL}))

HasDateColumn(tbl) ==
    /\ ColIndex(tbl.cols, "date") # 0
    /\ tbl.cols[ColIndex(tbl.cols, "date")].type = "DATE"

\* the orders in which the database may return the groups of the table:
\* the query has no ORDER BY
GroupOrders(w, db, t) ==
    IF HasTable(w, db, t) /\ HasDateColumn(w.tables[<<db, t>>])
    THEN Orderings(Range(RowWeeks(w.tables[<<db, t>>])))
    ELSE {<<>>}

\* the query's outcome from its groups' outcomes
Grouped(w, ord, avgs) ==
    IF \E k \in 1..Len(avgs) : ~avgs[k].ok THEN Ret(w, E_DivZero, <<>>)
    ELSE Ret(w, NoExc, [k \in 1..Len(avgs) |-> <<ord[k], avgs[k].v>>])

WeeklyQuery(w, weeks, ord) ==
    Grouped(w, ord, [k \in 1..Len(ord) |-> WeeklyAvg(weeks, ord[k])])

\* cursor.execute("SELECT ... GROUP BY week"); cursor.fetchall(), the groups
\* in the order ord
SelectWeekly(w, db, t, ord) ==
    IF ~HasTable(w, db, t) THEN Ret(w, E_NoTable, <<>>)
    ELSE IF ColIndex(w.tables[<<db, t>>].cols, "date") = 0 THEN Ret(w, E_NoColumn, <<>>)
    ELSE IF ~HasDateColumn(w.tables[<<db, t>>]) THEN Ret(w, E_NoFunction, <<>>)
    ELSE WeeklyQuery(w, RowWeeks(w.tables[<<db, t>>]), ord)

\* json.dumps([{"week": row[0].strftime("%Y-%m-%d"), "weekly_avg_trips": row[1]} ...])
ResultJson(result) ==
    [k \in 1..Len(result) |->
        [week |-> Strftime(result[k][1]), weekly_avg_trips |-> result[k][2]]]

\* the "if create_new:" branch: pass, and the function ends there
CreateNew(w) == Ret(w, NoExc, NULL)

\* the else branch, from the fetched groups: conn.close() and the return
FetchResult(q) ==
    IF q.exc # NoExc THEN q
    ELSE IF \E k \in 1..Len(q.ret) : q.ret[k][1] = NULL THEN Ret(q.w, E_NoStrftime, NULL)
    ELSE Ret(Close(q.w), NoExc, ResultJson(q.ret))

create_or_fetch_weekly_average_trips(w, bronze_table_name, bronze_db_name, create_new, ord) ==
    Bind(Connect(w, bronze_db_name), LAMBDA w1 :
    IF create_new THEN CreateNew(w1)
    ELSE FetchResult(SelectWeekly(w1, bronze_db_name, bronze_table_name, ord)))

(***************************************************************************)
(* The HTTP handlers.  A handler gives [w, resp]: the state it leaves and  *)
(* its response [status, key, body].                                       *)
(***************************************************************************)
Response(status, key, body) == [status |-> status, key |-> key, body |-> body]

\* the handler notes each helper it calls, in order
Call(w, name) == [w EXCEPT !.calls = Append(@, name)]

\* file.save(file_path)
FileSave(w, file_path, content) ==
    [w EXCEPT !.fs = (file_path :> content) @@ @]

\* os.remove(file_path)
OsRemove(w, file_path) ==
    [w EXCEPT !.fs = [k \in DOMAIN @ \ {file_path} |-> @[k]]]

\* create_silver_database_for_regions(...): a name the module never defines
CreateSilverDatabaseForRegions(w) == Ret(w, E_NoSilverFn, NULL)

\* the end of a handler's try block: the except clause answers 500 with the
\* exception's text, and otherwise the block's own return stands
Answer(r, status, key, body) ==
    IF r.exc # NoExc THEN [w |-> r.w, resp |-> Response(500, "error", r.exc)]
    ELSE [w |-> r.w, resp |-> Response(status, key, body)]

\* the statements of upload_csv's try block up to os.remove
UploadSteps(w, file_path, table_name) ==
    Bind(create_database_if_not_exists(
             Call(w, "create_database_if_not_exists(raw)"), DB_NAME), LAMBDA w1 :
    Bind(create_table_and_insert_data(
             Call(w1, "create_table_and_insert_data"),
             DB_NAME, file_path, table_name, TRUE), LAMBDA w2 :
    Bind(create_database_if_not_exists(
             Call(w2, "create_database_if_not_exists(bronze)"), BRONZE), LAMBDA w3 :
    Bind(transform_data_to_bronze(
             Call(w3, "transform_data_to_bronze"), DB_NAME, table_name, BRONZE), LAMBDA w4 :
    Bind(CreateSilverDatabaseForRegions(
             Call(w4, "create_silver_database_for_regions")), LAMBDA w5 :
    Ret(OsRemove(Call(w5, "os.remove"), file_path), NoExc, NULL))))))

\* the try block of upload_csv
UploadTry(w, filename, content) ==
    Answer(UploadSteps(FileSave(w, TEMP \o filename, content),
                       TEMP \o filename, SplitextRoot(filename)),
           200, "message", "File uploaded and saved to database successfully")

\* variant: no test of the file name's extension (C5 tells it apart)
upload_csv_any(w, req) ==
    IF ~req.has_file
    THEN [w |-> w, resp |-> Response(400, "error", "No file part")]
    ELSE IF req.filename = <<>>
    THEN [w |-> w, resp |-> Response(400, "error", "No selected file")]
    ELSE UploadTry(w, req.filename, req.content)

\* POST /upload-csv.  req = [has_file, filename, content]
upload_csv(w, req) ==
    IF ~req.has_file
    THEN [w |-> w, resp |-> Response(400, "error", "No file part")]
    ELSE IF req.filename = <<>>
    THEN [w |-> w, resp |-> Response(400, "error", "No selected file")]
    ELSE IF EndsWith(req.filename, CSV_EXT)
    THEN UploadTry(w, req.filename, req.content)
    ELSE [w |-> w, resp |-> Response(400, "error", "Invalid file format")]

LowerChar(c) ==
    IF \E l \in {"t", "r", "u", "e", "f", "a", "l", "s"} : UpperChar(l) = c
    THEN CHOOSE l \in {"t", "r", "u", "e", "f", "a", "l", "s"} : UpperChar(l) = c
    ELSE c

\* str.lower, on the letters the flag's values are written with
Lower(s) == [i \in 1..Len(s) |-> LowerChar(s[i])]

\* request.args.get('create_db', 'true').lower() == 'true'
CreateDbFlag(arg) ==
    Lower(IF arg = NULL THEN <<"t", "r", "u", "e">> ELSE arg) = <<"t", "r", "u", "e">>

\* the branch "if create_db:" of weekly_average_trips.  Both helper calls
\* pass 'bronze' and then bronze_table_name, which the helper's signature
\* takes as (bronze_table_name, bronze_db_name)
WeeklyCreate(w, bronze_table_name, ord) ==
    Answer(Bind(create_database_if_not_exists(
                    Call(w, "create_database_if_not_exists(silver)"), SILVER), LAMBDA w1 :
                create_or_fetch_weekly_average_trips(
                    Call(w1, "create_or_fetch_weekly_average_trips"),
                    BRONZE, bronze_table_name, TRUE, ord)),
           200, "message", "Silver table created from bronze table successfully")

\* the else branch: the fetched JSON is the response's data
FetchAnswer(r) == Answer(r, 200, "data", r.ret)

WeeklyFetch(w, bronze_table_name, ord) ==
    FetchAnswer(create_or_fetch_weekly_average_trips(
                    Call(w, "create_or_fetch_weekly_average_trips"),
                    BRONZE, bronze_table_name, FALSE, ord))

\* GET /weekly-average-trips.  args = [create_db, file_name], NULL when absent
weekly_average_trips(w, args, ord) ==
    IF args.file_name = NULL \/ args.file_name = <<>>
    THEN [w |-> w, resp |-> Response(400, "error", "Missing file name")]
    ELSE IF CreateDbFlag(args.create_db)
    THEN WeeklyCreate(w, BRONZE_PREFIX \o args.file_name, ord)
    ELSE WeeklyFetch(w, BRONZE_PREFIX \o args.file_name, ord)

(***************************************************************************)
(* The inputs drawn.                                                       *)
(***************************************************************************)
TripHeader == <<COL_region, COL_origin_coord, COL_destination_coord, COL_datetime, COL_datasource>>
AbcHeader == <<"a", "b", "c">>

T_north == <<"n", "o", "r", "t", "h">>
T_gps == <<"g", "p", "s">>
T_web == <<"W", "e", "b">>
T_20240102 == <<"2", "0", "2", "4", "-", "0", "1", "-", "0", "2">>
T_20240114 == <<"2", "0", "2", "4", "-", "0", "1", "-", "1", "4">>
T_030405 == <<"0", "3", ":", "0", "4", ":", "0", "5">>
T_235959 == <<"2", "3", ":", "5", "9", ":", "5", "9">>
T_POINT == <<"P", "O", "I", "N", "T", " ">>

\* '<prefix>(<lat> <lon>)'
Coord(prefix, lat, lon) == prefix \o <<"(">> \o lat \o <<" ">> \o lon \o <<")">>
\* 'D T'
DateTime(d, t) == d \o <<" ">> \o t

\* a Tuesday: the row of the specification's example
RowA == << T_north,
           Coord(T_POINT, <<"1", "0", ".", "5">>, <<"2", "0", ".", "5">>),
           Coord(T_POINT, <<"3", "0", ".", "1">>, <<"4", "0", ".", "2">>),
           DateTime(T_20240102, T_030405),
           T_gps >>
\* a Sunday of the following week
RowB == << T_web,
           Coord(<<>>, <<"1">>, <<"2">>),
           Coord(<<"P">>, <<"-", "3", ".", "5", "0">>, <<"4">>),
           DateTime(T_20240114, T_235959),
           T_web >>
\* a datetime with no time part: the cast to TIME rejects it
RowC == [RowA EXCEPT ![4] = T_20240102]
\* one cell more than the header has
RowX == RowA \o << <<"x">> >>
\* a row for the three-column header
RowY == << <<"1">>, <<"2">>, <<"3">> >>

\* n well-formed rows, RowA and RowB in turn
Goods(n, first) == [i \in 1..n |-> IF i % 2 = first THEN RowA ELSE RowB]

\* the CSV files uploaded: well-formed rows, well-formed rows with one
\* defective row among them, and rows of the three-column header
Contents ==
    {[header |-> TripHeader, rows |-> Goods(n, first)] : n \in 0..MaxRows, first \in 0..1}
    \cup UNION {{[header |-> TripHeader, rows |-> [Goods(n, first) EXCEPT ![k] = bad]] :
                   first \in 0..1, k \in 1..n, bad \in {RowC, RowX}} : n \in 1..MaxRows}
    \cup {[header |-> AbcHeader, rows |-> [i \in 1..n |-> RowY]] : n \in 0..MaxRows}

F_trips_csv == <<"t">> \o CSV_EXT
F_txt == <<"t", ".", "t", "x", "t">>
FileNames == {<<>>, F_txt, F_trips_csv}

\* the POST /upload-csv requests: without a file part, with a name the
\* handler refuses, and with each CSV file under each name it accepts
HeaderOnly == [header |-> TripHeader, rows |-> <<>>]
UploadRequests ==
    {[has_file |-> FALSE, filename |-> <<>>, content |-> HeaderOnly]}
    \cup {[has_file |-> TRUE, filename |-> f, content |-> HeaderOnly] :
            f \in {f \in FileNames : ~EndsWith(f, CSV_EXT)}}
    \cup {[has_file |-> TRUE, filename |-> f, content |-> c] :
            f \in {f \in FileNames : EndsWith(f, CSV_EXT)}, c \in Contents}

\* the GET /weekly-average-trips requests: each argument absent (NULL) or given
T_True == <<"T", "r", "u", "e">>
T_false == <<"f", "a", "l", "s", "e">>
WeeklyRequests ==
    {[create_db |-> c, file_name |-> <<"t">>] : c \in {NULL, T_True, T_false}}
    \cup {[create_db |-> T_false, file_name |-> f] : f \in {NULL, <<"t", "r", "i", "p", "s">>}}
    \cup {[create_db |-> T_True, file_name |-> <<>>]}

(***************************************************************************)
(* The state.                                                              *)
(***************************************************************************)
VARIABLES
    pg_database,  \* the server's catalog
    tables,       \* <<database, table>> -> [cols, rows]
    fs,           \* path -> CSV file
    open_conns,   \* connections opened and not closed
    create_log,   \* the CREATE DATABASE statements issued
    calls,        \* the helper calls of the last handler
    request,      \* the last request handled or call made
    response      \* its response, or [exc, ret] for a direct call

vars == <<pg_database, tables, fs, open_conns, create_log, calls, request, response>>
store == <<pg_database, tables, fs, open_conns, create_log>>

World ==
    [pg_database |-> pg_database, tables |-> tables, fs |-> fs,
     open_conns |-> open_conns, create_log |-> create_log, calls |-> <<>>]

Becomes(w) ==
    /\ pg_database' = w.pg_database
    /\ tables' = w.tables
    /\ fs' = w.fs
    /\ open_conns' = w.open_conns
    /\ create_log' = w.create_log
    /\ calls' = w.calls

EmptyMap == [k \in {} |-> NULL]

BronzeRows == IF <<BRONZE, BRONZE_TRIPS>> \in DOMAIN tables
              THEN tables[<<BRONZE, BRONZE_TRIPS>>].rows ELSE <<>>

Init ==
    /\ pg_database = {POSTGRES}
    /\ tables = EmptyMap
    /\ fs = EmptyMap
    /\ open_conns = 0
    /\ create_log = <<>>
    /\ calls = <<>>
    /\ request = [op |-> "none"]
    /\ response = [status |-> 0]

(***************************************************************************)
(* The service: one action per endpoint, a whole request at a time.        *)
(***************************************************************************)
\* a request is taken while few connections are left open and bronze_trips
\* has room for the rows it brings
Room(n) == Len(BronzeRows) + n <= MaxBronze /\ open_conns < MaxConns

\* the state and the response a handler leaves
Handled(h, req) ==
    /\ Becomes(h.w)
    /\ request' = req
    /\ response' = h.resp

UploadCsv ==
    \E req \in UploadRequests :
        /\ Room(Len(req.content.rows))
        /\ Handled(upload_csv(World, req),
                   [op |-> "upload_csv", has_file |-> req.has_file, filename |-> req.filename])

WeeklyAverageTrips ==
    \E args \in WeeklyRequests :
        /\ Room(0)
        /\ \E ord \in GroupOrders(World, BRONZE_PREFIX \o (IF args.file_name = NULL THEN <<>> ELSE args.file_name), BRONZE) :
             Handled(weekly_average_trips(World, args, ord),
                     [op |-> "weekly_average_trips", create_db |-> args.create_db,
                      file_name |-> args.file_name])

Next == UploadCsv \/ WeeklyAverageTrips

Spec == Init /\ [][Next]_vars

(***************************************************************************)
(* The helpers called directly, a whole call at a time.                    *)
(***************************************************************************)
\* the state and the outcome a direct call leaves
Returned(r, req) ==
    /\ Becomes(r.w)
    /\ request' = req
    /\ response' = [exc |-> r.exc, ret |-> r.ret]

RowsOf(db, t) == IF <<db, t>> \in DOMAIN tables THEN tables[<<db, t>>].rows ELSE <<>>

CallCreateDatabase ==
    /\ open_conns < MaxConns
    /\ \E db_name \in {DB_NAME, BRONZE, SILVER, POSTGRES} :
         Returned(create_database_if_not_exists(World, db_name),
                  [op |-> "create_database_if_not_exists", db_name |-> db_name])

\* the CSV files loaded directly: no row, one row, two rows, and a row of
\* each defect
LibContents ==
    {[header |-> TripHeader, rows |-> rs] :
        rs \in {<<>>, <<RowA>>, <<RowB, RowA>>, <<RowC>>, <<RowB, RowX>>}}

\* the caller writes the CSV file, then has it loaded
CallCreateTable ==
    /\ open_conns < MaxConns
    /\ \E content \in LibContents, overwrite \in BOOLEAN :
         /\ overwrite \/ Len(RowsOf(DB_NAME, <<"t">>)) + Len(content.rows) <= MaxRows
         /\ Returned(create_table_and_insert_data(
                         FileSave(World, TEMP \o F_trips_csv, content),
                         DB_NAME, TEMP \o F_trips_csv, F_trips_csv, overwrite),
                     [op |-> "create_table_and_insert_data", overwrite |-> overwrite])

CallTransform ==
    /\ open_conns < MaxConns
    /\ \E raw_table_name \in {<<"t">>} :
         /\ Len(BronzeRows) + Len(RowsOf(DB_NAME, raw_table_name)) <= MaxBronze
         /\ Returned(transform_data_to_bronze(World, DB_NAME, raw_table_name, BRONZE),
                     [op |-> "transform_data_to_bronze", raw_table_name |-> raw_table_name])

\* the calls of the aggregation: on bronze_trips in both modes, and on a raw
\* table
FetchCalls ==
    {[bronze_table_name |-> BRONZE_TRIPS, bronze_db_name |-> BRONZE, create_new |-> c] :
        c \in BOOLEAN}
    \cup {[bronze_table_name |-> <<"t">>, bronze_db_name |-> DB_NAME, create_new |-> FALSE]}

CallFetch ==
    /\ open_conns < MaxConns
    /\ \E a \in FetchCalls :
         \E ord \in GroupOrders(World, a.bronze_db_name, a.bronze_table_name) :
           Returned(create_or_fetch_weekly_average_trips(
                        World, a.bronze_table_name, a.bronze_db_name, a.create_new, ord),
                    [op |-> "create_or_fetch_weekly_average_trips", args |-> a])

LibNext == CallCreateDatabase \/ CallCreateTable \/ CallTransform \/ CallFetch

LibSpec == Init /\ [][LibNext]_vars

(***************************************************************************)
(* The transform on one raw row, the row drawn from its parts.             *)
(***************************************************************************)
T_20240229 == <<"2", "0", "2", "4", "-", "0", "2", "-", "2", "9">>
T_20230229 == <<"2", "0", "2", "3", "-", "0", "2", "-", "2", "9">>
DateParts == {T_20240102, T_20240229, T_20230229}
TimeParts == {T_030405, T_235959}
Separators == {<<" ">>, <<" ", " ">>}
PrefixParts == {T_POINT, <<>>, <<"A", "(", "B">>}
LatParts == {<<"1", "0", ".", "5">>, <<"-", "3", ".", "5", "0">>}
LonParts == {<<"2", "0", ".", "5">>, <<"4">>}
RegionParts == {T_north, T_web}

DestinationParts ==
    {Coord(T_POINT, <<"3", "0", ".", "1">>, <<"4", "0", ".", "2">>),
     Coord(<<>>, <<"4">>, <<"-", "3", ".", "5", "0">>)}

\* the raw row of the parts
PartsRow(d, sep, t, prefix, lat, lon, destination, region) ==
    << region, Coord(prefix, lat, lon), destination, d \o sep \o t, T_gps >>

RawTable(rows) ==
    [cols |-> [i \in 1..Len(TripHeader) |-> [name |-> TripHeader[i], type |-> "VARCHAR"]],
     rows |-> rows]

RowInit ==
    /\ pg_database = {POSTGRES, DB_NAME, BRONZE}
    /\ \E d \in DateParts, sep \in Separators, t \in TimeParts, prefix \in PrefixParts,
          lat \in LatParts, lon \in LonParts, destination \in DestinationParts,
          region \in RegionParts :
         tables = (<<DB_NAME, <<"t">>>> :>
                     RawTable(<<PartsRow(d, sep, t, prefix, lat, lon, destination, region)>>))
    /\ fs = EmptyMap
    /\ open_conns = 0
    /\ create_log = <<DB_NAME, BRONZE>>
    /\ calls = <<>>
    /\ request = [op |-> "none"]
    /\ response = [status |-> 0]

RowNext == CallTransform

RowSpec == RowInit /\ [][RowNext]_vars

(***************************************************************************)
(* The aggregation on a bronze table drawn from two weeks' rows, with or   *)
(* without a row whose date is NULL: the row a raw row of fewer cells      *)
(* than the header leaves.                                                 *)
(***************************************************************************)
\* three weeks, Monday to Sunday: the first of 2024, the one of the leap
\* day, and the one the year ends in
WeekDates ==
    << << <<2024, 1, 1>>, <<2024, 1, 2>>, <<2024, 1, 3>>, <<2024, 1, 4>>,
          <<2024, 1, 5>>, <<2024, 1, 6>>, <<2024, 1, 7>> >>,
       << <<2024, 2, 26>>, <<2024, 2, 27>>, <<2024, 2, 28>>, <<2024, 2, 29>>,
          <<2024, 3, 1>>, <<2024, 3, 2>>, <<2024, 3, 3>> >>,
       << <<2024, 12, 30>>, <<2024, 12, 31>>, <<2025, 1, 1>>, <<2025, 1, 2>>,
          <<2025, 1, 3>>, <<2025, 1, 4>>, <<2025, 1, 5>> >> >>

\* a bronze row of that date
TripOn(date) ==
    <<date, <<3, 4, 5>>, <<105, 1>>, <<205, 1>>, <<301, 1>>, <<402, 1>>,
      <<"N", "O", "R", "T", "H">>, <<"G", "P", "S">>>>

\* n rows of week k, on its days in turn from the Sunday back
WeekRows(k, n) == [i \in 1..n |-> TripOn(WeekDates[k][7 - ((i - 1) % 7)])]

\* what the transform makes of the raw row <<region>>: the cells the row
\* lacks are NULL, and so is every value the query takes from them
UndatedRow == <<NULL, NULL, NULL, NULL, NULL, NULL, <<"N", "O", "R", "T", "H">>, NULL>>

AggInit ==
    /\ pg_database = {POSTGRES, DB_NAME, BRONZE}
    /\ \E k1 \in 1..3, k2 \in 1..3, n1 \in 0..MaxPerWeek, n2 \in 0..MaxPerWeek,
          undated \in {<<>>, <<UndatedRow>>} :
         tables = (<<BRONZE, BRONZE_TRIPS>> :>
                     [cols |-> BronzeCols,
                      rows |-> WeekRows(k1, n1) \o undated \o WeekRows(k2, n2)])
    /\ fs = EmptyMap
    /\ open_conns = 0
    /\ create_log = <<DB_NAME, BRONZE>>
    /\ calls = <<>>
    /\ request = [op |-> "none"]
    /\ response = [status |-> 0]

AggNext == CallFetch

AggSpec == AggInit /\ [][AggNext]_vars

(***************************************************************************)
(* What the claims read off the state.                                     *)
(***************************************************************************)
TempPath == TEMP \o F_trips_csv
RawT == <<DB_NAME, <<"t">>>>

IsUpload == request.op = "upload_csv"
IsWeekly == request.op = "weekly_average_trips"
ValidUpload ==
    IsUpload /\ request.has_file /\ request.filename # <<>>
             /\ EndsWith(request.filename, CSV_EXT)

\* every data row has as many cells as the header
SameArity(csv_file) ==
    \A i \in 1..Len(csv_file.rows) : Len(csv_file.rows[i]) = Len(csv_file.header)

\* the first data row the database rejects on insert, 0 when there is none
FirstRejected(csv_file) ==
    IF \E i \in 1..Len(csv_file.rows) :
          Len(csv_file.rows[i]) > Len(csv_file.header) \/ Len(csv_file.rows[i]) = 0
    THEN CHOOSE i \in 1..Len(csv_file.rows) :
           /\ Len(csv_file.rows[i]) > Len(csv_file.header) \/ Len(csv_file.rows[i]) = 0
           /\ \A j \in 1..(i - 1) : Len(csv_file.rows[j]) \in 1..Len(csv_file.header)
    ELSE 0

UploadCalls ==
    << "create_database_if_not_exists(raw)", "create_table_and_insert_data",
       "create_database_if_not_exists(bronze)", "transform_data_to_bronze",
       "create_silver_database_for_regions", "os.remove" >>

Called(name) == \E i \in 1..Len(calls) : calls[i] = name

(***************************************************************************)
(* C1.  An upload of a CSV file in which nothing is rejected runs          *)
(* provision raw, load, provision bronze, transform, silver provisioning   *)
(* and the removal of the temporary file in this order, answers 200 with   *)
(* a message, and leaves no temporary file.                                *)
(***************************************************************************)
C1_UploadSucceeds ==
    (ValidUpload /\ response.body \notin Rejections)
        => /\ response.status = 200
           /\ response.key = "message"
           /\ calls = UploadCalls
           /\ TEMP \o request.filename \notin DOMAIN fs

(***************************************************************************)
(* C2.  After an upload of t.csv has put its rows in bronze_trips, the     *)
(* request GET /weekly-average-trips?create_db=false&file_name=t answers   *)
(* with the week buckets of bronze_trips: it does not fail, and every row  *)
(* of bronze_trips falls in a bucket returned.                             *)
(***************************************************************************)
C2_FetchReadsBronze ==
    (/\ IsWeekly
     /\ request.create_db = T_false
     /\ request.file_name = <<"t">>
     /\ Len(BronzeRows) > 0)
        => /\ response.status = 200
           /\ response.key = "data"
           /\ \A i \in 1..Len(BronzeRows) :
                \E k \in 1..Len(response.body) :
                    response.body[k].week = Strftime(DateTruncWeek(BronzeRows[i][1]))

(***************************************************************************)
(* C3.  After a load with overwrite of a CSV file whose rows all have the  *)
(* header's arity, the raw table named after the file has exactly the      *)
(* header's columns, in order and all text, and exactly the file's rows,   *)
(* in order, whatever the table held before; with no data row the table    *)
(* exists and is empty.                                                    *)
(***************************************************************************)
C3_RawRoundTrip ==
    (ValidUpload /\ SameArity(fs[TempPath]))
        => /\ Called("create_database_if_not_exists(bronze)")
           /\ RawT \in DOMAIN tables
           /\ Len(tables[RawT].cols) = Len(fs[TempPath].header)
           /\ \A i \in 1..Len(tables[RawT].cols) :
                  tables[RawT].cols[i] = [name |-> fs[TempPath].header[i], type |-> "VARCHAR"]
           /\ tables[RawT].rows = fs[TempPath].rows

\* a file of the three-column header has replaced the trips table, whose
\* rows are in bronze_trips
C3_Witness ==
    /\ ValidUpload
    /\ fs[TempPath].header = AbcHeader
    /\ RawT \in DOMAIN tables
    /\ tables[RawT].rows = <<RowY>>
    /\ Len(BronzeRows) > 0

(***************************************************************************)
(* C4.  Provisioning is idempotent: a call of                              *)
(* create_database_if_not_exists returns without error with the database   *)
(* in the catalog; on a database already there it changes nothing and      *)
(* issues no CREATE DATABASE; no database is created twice.                *)
(***************************************************************************)
NoDuplicates(seq) == \A i, j \in 1..Len(seq) : seq[i] = seq[j] => i = j

C4_ProvisionStep ==
    request'.op = "create_database_if_not_exists"
        => /\ response'.exc = NoExc
           /\ request'.db_name \in pg_database'
           /\ request'.db_name \in pg_database => UNCHANGED store
           /\ request'.db_name \notin pg_database
                => /\ create_log' = Append(create_log, request'.db_name)
                   /\ pg_database' = pg_database \cup {request'.db_name}

\* C4: CREATE DATABASE is issued at most once for a name, and every call
\* is such a step
C4_ProvisionIdempotent ==
    /\ [](NoDuplicates(create_log))
    /\ [][C4_ProvisionStep]_vars

\* a second call for the database a first call created
C4_Witness ==
    /\ request.op = "create_database_if_not_exists"
    /\ request.db_name = SILVER
    /\ response.exc = NoExc
    /\ create_log = <<SILVER, BRONZE>>

(***************************************************************************)
(* C5.  A request that fails validation is answered 400 with an error and  *)
(* changes nothing: no helper is called, so no connection is opened, and   *)
(* the catalog, the tables and the temporary files stay as they were.      *)
(***************************************************************************)
InvalidRequest(req) ==
    \/ /\ req.op = "upload_csv"
       /\ ~req.has_file \/ req.filename = <<>> \/ ~EndsWith(req.filename, CSV_EXT)
    \/ /\ req.op = "weekly_average_trips"
       /\ req.file_name = NULL \/ req.file_name = <<>>

C5_ValidationStep ==
    InvalidRequest(request')
        => /\ response'.status = 400
           /\ response'.key = "error"
           /\ calls' = <<>>
           /\ UNCHANGED store

\* C5, of every step
C5_ValidationFailures == [][C5_ValidationStep]_vars

\* a file with another extension is refused while the tables hold rows
C5_Witness ==
    /\ IsUpload
    /\ request.filename = F_txt
    /\ response.status = 400
    /\ Len(BronzeRows) > 0
    /\ TempPath \in DOMAIN fs

(***************************************************************************)
(* C6.  bronze_trips is an append-only sink: no step removes or alters a   *)
(* row it holds or drops the table, and each call of                       *)
(* transform_data_to_bronze on a raw table of N rows adds exactly N rows.  *)
(***************************************************************************)
IsTransform(req) == req.op = "transform_data_to_bronze"

\* C6 as made: every call adds the raw table's N rows
\* (a call that finds both databases and, in raw, a table of the five columns)
C6_EveryCallAddsStep ==
    (/\ IsTransform(request')
     /\ {DB_NAME, BRONZE} \subseteq pg_database
     /\ <<DB_NAME, request'.raw_table_name>> \in DOMAIN tables
     /\ tables[<<DB_NAME, request'.raw_table_name>>].cols
            = [i \in 1..Len(TripHeader) |-> [name |-> TripHeader[i], type |-> "VARCHAR"]])
        => Len(BronzeRows') = Len(BronzeRows) + Len(RowsOf(DB_NAME, request'.raw_table_name))

C6_AppendStep ==
    /\ <<BRONZE, BRONZE_TRIPS>> \in DOMAIN tables => <<BRONZE, BRONZE_TRIPS>> \in DOMAIN tables'
    /\ Len(BronzeRows') >= Len(BronzeRows)
    /\ SubSeq(BronzeRows', 1, Len(BronzeRows)) = BronzeRows
    /\ IsTransform(request')
        => IF response'.exc \in Rejections
           THEN BronzeRows' = BronzeRows
           ELSE /\ Len(BronzeRows') = Len(BronzeRows) + Len(RowsOf(DB_NAME, request'.raw_table_name))
                /\ \A i \in 1..Len(RowsOf(DB_NAME, request'.raw_table_name)) :
                     BronzeRows'[Len(BronzeRows) + i] =
                        TransformRow(tables[<<DB_NAME, request'.raw_table_name>>].cols,
                                     RowsOf(DB_NAME, request'.raw_table_name)[i]).v

Count(s, c) == Cardinality({i \in 1..Len(s) : s[i] = c})

\* 'D T': one space, the date before it and the time after it
DatePart(s) == SubSeq(s, 1, IndexOf(s, " ") - 1)
TimePart(s) == SubSeq(s, IndexOf(s, " ") + 1, Len(s))

\* '<prefix>(<lat> <lon>)': the latitude between the parenthesis and the
\* space that follows it, the longitude from that space to the closing one
SpaceAfterParen(s) ==
    CHOOSE j \in (IndexOf(s, "(") + 1)..Len(s) :
        s[j] = " " /\ \A i \in (IndexOf(s, "(") + 1)..(j - 1) : s[i] # " "
LatPart(s) == SubSeq(s, IndexOf(s, "(") + 1, SpaceAfterParen(s) - 1)
LonPart(s) == SubSeq(s, SpaceAfterParen(s) + 1, Len(s) - 1)

IsCoord(s) ==
    /\ Count(s, "(") = 1 /\ Count(s, ")") = 1
    /\ Len(s) > 0 /\ s[Len(s)] = ")"
    /\ Cardinality({j \in (IndexOf(s, "(") + 1)..Len(s) : s[j] = " "}) = 1
    /\ CastFloat(LatPart(s)).ok /\ CastFloat(LonPart(s)).ok

\* region, origin_coord, destination_coord, datetime, datasource
IsTripRow(row) ==
    /\ Count(row[4], " ") = 1
    /\ CastDate(DatePart(row[4])).ok /\ CastTime(TimePart(row[4])).ok
    /\ IsCoord(row[2]) /\ IsCoord(row[3])

ExpectedBronze(row) ==
    << CastDate(DatePart(row[4])).v, CastTime(TimePart(row[4])).v,
       CastFloat(LatPart(row[2])).v, CastFloat(LonPart(row[2])).v,
       CastFloat(LatPart(row[3])).v, CastFloat(LonPart(row[3])).v,
       Upper(row[1]), Upper(row[5]) >>

ExampleBronze ==
    << <<2024, 1, 2>>, <<3, 4, 5>>, <<105, 1>>, <<205, 1>>, <<301, 1>>, <<402, 1>>,
       <<"N", "O", "R", "T", "H">>, <<"G", "P", "S">> >>

\* C7: a raw row of the claim's form is transformed, and into the values
\* its parts denote
C7_TransformCorrect ==
    (IsTransform(request) /\ IsTripRow(tables[RawT].rows[1]))
        => /\ response.exc \notin Rejections
           /\ Len(BronzeRows) > 0
           /\ BronzeRows[Len(BronzeRows)] = ExpectedBronze(tables[RawT].rows[1])
           /\ tables[RawT].rows[1] = RowA => BronzeRows[Len(BronzeRows)] = ExampleBronze

C7_Witness ==
    /\ IsTransform(request)
    /\ tables[RawT].rows[1] = RowA
    /\ BronzeRows = <<ExampleBronze>>

(***************************************************************************)
(* C8.  In fetch mode the aggregation returns one entry per calendar week  *)
(* present in the rows, dated the week's Monday, whose value is the        *)
(* number of the week's rows divided, in the integers, by the number of    *)
(* distinct weeks of that group, which is one; rows of two weeks, three    *)
(* of one and five of the other, give two entries.                         *)
(***************************************************************************)
MondayText ==
    << <<"2", "0", "2", "4", "-", "0", "1", "-", "0", "1">>,
       <<"2", "0", "2", "4", "-", "0", "2", "-", "2", "6">>,
       <<"2", "0", "2", "4", "-", "1", "2", "-", "3", "0">> >>

\* the rows of bronze_trips dated in week k
RowsInWeek(k) ==
    Cardinality({i \in 1..Len(BronzeRows) :
                    \E d \in 1..7 : BronzeRows[i][1] = WeekDates[k][d]})

IsFetch ==
    /\ request.op = "create_or_fetch_weekly_average_trips"
    /\ request.args = [bronze_table_name |-> BRONZE_TRIPS, bronze_db_name |-> BRONZE,
                       create_new |-> FALSE]

Undated == \E i \in 1..Len(BronzeRows) : BronzeRows[i][1] = NULL

\* C8 as made: whatever rows the table holds
C8_AnyRows ==
    IsFetch
        => /\ response.exc = NoExc
           /\ Len(response.ret) = Cardinality({k \in 1..3 : RowsInWeek(k) > 0})

C8_DatedRows ==
    (IsFetch /\ ~Undated)
        => /\ response.exc = NoExc
           /\ Len(response.ret) = Cardinality({k \in 1..3 : RowsInWeek(k) > 0})
           /\ \A k \in 1..3 :
                RowsInWeek(k) > 0
                    => \E e \in 1..Len(response.ret) :
                          response.ret[e] = [week |-> MondayText[k],
                                             weekly_avg_trips |-> RowsInWeek(k) \div 1]

\* C8 as amended: on rows that all have a date the call returns one entry
\* per week, dated its Monday, with the number of the week's rows; a row
\* without a date makes a group of no week, whose division by zero fails
\* the call
C8_WeeklyFetch ==
    /\ C8_DatedRows
    /\ (IsFetch /\ Undated) => response.exc = E_DivZero

\* three rows of one week and five of another: two entries
C8_Witness ==
    /\ IsFetch
    /\ ~Undated
    /\ Len(response.ret) = 2
    /\ {response.ret[1].weekly_avg_trips, response.ret[2].weekly_avg_trips} = {3, 5}

(***************************************************************************)
(* C9.  Every connection a helper opens is closed when the call ends: no   *)
(* connection is open between requests.                                    *)
(***************************************************************************)
C9_NoOpenConnection == open_conns = 0

(***************************************************************************)
(* C10.  When the insert of data row k is rejected during the load of an   *)
(* upload, the rows before k are in the raw table and none after it, the   *)
(* transform is not run, bronze_trips is as it was, and the request        *)
(* answers 500 with the exception's text.                                  *)
(***************************************************************************)
C10_LoadFailureStep ==
    (/\ request'.op = "upload_csv"
     /\ request'.has_file /\ EndsWith(request'.filename, CSV_EXT)
     /\ FirstRejected(fs'[TempPath]) > 0)
        => /\ response'.status = 500
           /\ response'.key = "error"
           /\ response'.body \in {E_Insert, E_Syntax}
           /\ tables'[RawT].rows =
                 SubSeq(fs'[TempPath].rows, 1, FirstRejected(fs'[TempPath]) - 1)
           /\ ~\E i \in 1..Len(calls') : calls'[i] = "transform_data_to_bronze"
           /\ BronzeRows' = BronzeRows

\* C10, of every step
C10_LoadFailure == [][C10_LoadFailureStep]_vars

\* the second row was rejected: the first is in the raw table
C10_Witness ==
    /\ ValidUpload
    /\ response.status = 500
    /\ response.body = E_Insert
    /\ FirstRejected(fs[TempPath]) = 2
    /\ Len(tables[RawT].rows) = 1

============================================================================
